---- MODULE Spec2Model ----
(***************************************************************************)
(* Model of script.py: bulk import of spreadsheet rows into a remote user  *)
(* service.  Strings that the script trims or compares (cells, header      *)
(* names, emails) are sequences of one-character strings; opaque strings   *)
(* (ids, error messages) are TLA+ strings.                                 *)
(***************************************************************************)
EXTENDS Integers, Sequences, FiniteSets, TLC

\* ---------------------------------------------------------------- bounds
MaxDataRows == 2

\* ------------------------------------------------------- Python values
\* None as a cell value: no character sequence equals it, since every
\* character is a one-character string.
None == <<"None">>
\* None where the script holds an opaque string (ids, dict lookups).
NoneStr == "<None>"

FirstNameKey == <<"F","i","r","s","t"," ","N","a","m","e">>
LastNameKey == <<"L","a","s","t"," ","N","a","m","e">>
TitleKey == <<"T","i","t","l","e">>
PasswordKey == <<"p","a","s","s","w","o","r","d">>
EmailKey == <<"E","m","a","i","l">>

DefaultTitle == <<"-">>
DefaultLastName == <<"-">>
DefaultPassword == <<"@","D","e","f","a","u","l","t","1">>

MissingFieldsMsg == "Missing required fields: First Name or Email"
UserNotFoundMsg == "User not found for update"
IntNoGetMsg == "'int' object has no attribute 'get'"
TupleNoGetMsg == "'tuple' object has no attribute 'get'"

\* str.strip(): drop leading and trailing whitespace.
RECURSIVE lstrip(_)
lstrip(s) ==
    IF s = <<>> THEN <<>>
    ELSE IF Head(s) = " " THEN lstrip(Tail(s)) ELSE s

RECURSIVE rstrip(_)
rstrip(s) ==
    IF s = <<>> THEN <<>>
    ELSE IF s[Len(s)] = " " THEN rstrip(SubSeq(s, 1, Len(s) - 1)) ELSE s

strip(s) == rstrip(lstrip(s))

\* Python truthiness of an Optional[str].
Truthy(v) == v # None /\ v # <<>>

\* x in seq / seq.index(x)
Contains(seq, x) == \E i \in 1..Len(seq) : seq[i] = x
IndexOf(seq, x) ==
    CHOOSE i \in 1..Len(seq) : seq[i] = x /\ \A j \in 1..(i - 1) : seq[j] # x

\* ------------------------------------------------------------ the inputs
\* Raw header cells of row 1 (before trimming).
HeaderRows ==
    { <<FirstNameKey, EmailKey>>,
      << <<" ">> \o EmailKey, FirstNameKey \o <<" ">> >>,
      <<FirstNameKey, LastNameKey>> }

\* Cell values of the two columns of a data row.
Column1Cells == { None, <<>>, <<"x">> }
Column2Cells == { None, <<" ">>, <<"a">>, <<" ","b">> }
DataRows == { <<c1, c2>> : c1 \in Column1Cells, c2 \in Column2Cells }

RECURSIVE SeqsUpTo(_, _)
SeqsUpTo(S, n) ==
    IF n = 0 THEN { <<>> }
    ELSE LET shorter == SeqsUpTo(S, n - 1)
         IN  shorter \cup { Append(s, x) : s \in { t \in shorter : Len(t) = n - 1 }, x \in S }

\* ------------------------------------------------------ prepare_data
get_str(key, row, headers) ==
    IF Contains(headers, key)
    THEN LET value == row[IndexOf(headers, key)]
         IN  IF value \notin { None, <<>> } THEN strip(value) ELSE None
    ELSE None

OrDefault(v, d) == IF Truthy(v) THEN v ELSE d

\* ok = FALSE models raise ValueError(MissingFieldsMsg); data is the returned dict.
prepare_data(row, headers) ==
    LET first_name == get_str(FirstNameKey, row, headers)
        last_name == get_str(LastNameKey, row, headers)
        title == get_str(TitleKey, row, headers)
        password == get_str(PasswordKey, row, headers)
        email == get_str(EmailKey, row, headers)
    IN  IF ~Truthy(first_name) \/ ~Truthy(email)
        THEN [ok |-> FALSE, data |-> <<>>]
        ELSE [ok |-> TRUE,
              data |-> << [title |-> OrDefault(title, DefaultTitle),
                           firstName |-> first_name,
                           lastName |-> OrDefault(last_name, DefaultLastName),
                           email |-> email,
                           password |-> OrDefault(password, DefaultPassword),
                           isFactorForceActivated |-> "true"] >>]

\* ------------------------------------------------- the remote service
\* Reply to POST /api/User/CreateUser.  exc is the message of the exception
\* requests.post raised ("" when it returned); json_exc that of
\* response.json(); errorMessage and error are NoneStr when the key is
\* absent from the body; repr is str() of the body.
CreateReply(exc, status_code, json_exc, success, id, errorMessage, error, repr, text) ==
    [exc |-> exc, status_code |-> status_code, json_exc |-> json_exc,
     success |-> success, id |-> id, errorMessage |-> errorMessage,
     error |-> error, repr |-> repr, text |-> text]

CreatedReply(id) == CreateReply("", 200, "", TRUE, id, NoneStr, NoneStr, "{'success': True}", "")
DuplicateReply == CreateReply("", 200, "", FALSE, "", "email_duplicate", NoneStr, "{'success': False}", "")

CreateReplies ==
    { CreateReply("Read timed out", 0, "", FALSE, "", NoneStr, NoneStr, "", ""),
      CreateReply("", 200, "Expecting value", FALSE, "", NoneStr, NoneStr, "", "<html>"),
      CreatedReply("U1"),
      CreatedReply(""),
      DuplicateReply,
      CreateReply("", 200, "", FALSE, "", "invalid_password", NoneStr, "{'success': False}", ""),
      CreateReply("", 200, "", FALSE, "", NoneStr, NoneStr, "{'success': False}", ""),
      CreateReply("", 500, "", FALSE, "", NoneStr, NoneStr, "", "") }

\* Reply to GET /api/Lookup/SearchUser: ids holds the "id" of each element
\* of the returned list (NoneStr for an element without one).
LookupReply(exc, status_code, ids) == [exc |-> exc, status_code |-> status_code, ids |-> ids]

LookupReplies ==
    { LookupReply("Read timed out", 0, <<>>),
      LookupReply("", 500, <<>>),
      LookupReply("", 200, <<>>),
      LookupReply("", 200, <<NoneStr>>),
      LookupReply("", 200, <<"U2", "U3">>) }

\* Reply to POST /api/User/UpdateUserProfile.
UpdateReply(exc, status_code) == [exc |-> exc, status_code |-> status_code]

UpdateReplies ==
    { UpdateReply("Read timed out", 0), UpdateReply("", 200), UpdateReply("", 500) }

\* A service that keeps its users: registered is the sequence of emails it
\* holds, in registration order; the i-th holds id ServiceIds[i].
ServiceIds == <<"U1", "U2", "U3", "U4", "U5">>
ServiceId(registered, email) == ServiceIds[IndexOf(registered, email)]

ConformingCreate(registered, email) ==
    IF Contains(registered, email) THEN DuplicateReply
    ELSE CreatedReply(ServiceIds[Len(registered) + 1])

ConformingLookup(registered, email) ==
    IF Contains(registered, email)
    THEN LookupReply("", 200, <<ServiceId(registered, email)>>)
    ELSE LookupReply("", 200, <<>>)

\* --------------------------------------------- values create_user returns
\* The second element of the returned tuple is a dict, an int or a tuple.
PyDict(errorMessage, error, repr) ==
    [type |-> "dict", code |-> 0, errorMessage |-> errorMessage, error |-> error, repr |-> repr]
PyInt(n) ==
    [type |-> "int", code |-> n, errorMessage |-> NoneStr, error |-> NoneStr, repr |-> "int"]
PyTuple(msg) ==
    [type |-> "tuple", code |-> 500, errorMessage |-> NoneStr, error |-> msg, repr |-> "tuple"]

ErrorDict(msg) == PyDict(NoneStr, msg, "{'error': ...}")

Ret(status, response, user_id) == [status |-> status, response |-> response, user_id |-> user_id]
NoRet == Ret("", PyDict(NoneStr, NoneStr, ""), "")

\* Variant of TransportRet that loses the exception's message.
TransportRet_NoMessage(msg) == Ret("failed", ErrorDict(""), "")

\* "except Exception as e" of create_user, e carrying msg.
TransportRet(msg) == Ret("failed", ErrorDict(msg), "")

\* create_user from the reply to its POST up to the duplicate branch:
\* next = "lookup" when it goes on to get_user_id_by_email, else it returns ret.
create_user(reply) ==
    IF reply.exc # "" THEN [next |-> "write", ret |-> TransportRet(reply.exc)]
    ELSE IF reply.status_code = 200
    THEN IF reply.json_exc # ""
         THEN [next |-> "write", ret |-> TransportRet(reply.json_exc)]
         ELSE IF reply.success
         THEN [next |-> "write",
               ret |-> Ret("created", PyDict(reply.errorMessage, reply.error, reply.repr), reply.id)]
         ELSE IF reply.errorMessage = "email_duplicate"
         THEN [next |-> "lookup", ret |-> NoRet]
         ELSE [next |-> "write",
               ret |-> Ret("failed", PyDict(reply.errorMessage, reply.error, reply.repr), "")]
    ELSE [next |-> "write", ret |-> Ret("failed", ErrorDict(reply.text), "")]

\* Variant of get_user_id_by_email testing len(users) > 1.
get_user_id_by_email_NeedsTwo(reply) ==
    IF reply.exc # "" THEN NoneStr
    ELSE IF reply.status_code = 200 /\ Len(reply.ids) > 1 THEN reply.ids[1]
    ELSE NoneStr

get_user_id_by_email(reply) ==
    IF reply.exc # "" THEN NoneStr
    ELSE IF reply.status_code = 200 /\ Len(reply.ids) > 0 THEN reply.ids[1]
    ELSE NoneStr

\* "if user_id:"
TruthyId(user_id) == user_id # NoneStr /\ user_id # ""

\* Variant of NotFoundRet returning an empty dict as the response.
NotFoundRet_EmptyDict == Ret("failed", PyDict(NoneStr, NoneStr, "{}"), "")

\* create_user after the lookup returned nothing usable.
NotFoundRet == Ret("failed", ErrorDict(UserNotFoundMsg), "")

update_user_profile(reply) ==
    IF reply.exc # "" THEN PyTuple(reply.exc) ELSE PyInt(reply.status_code)

\* Variant of UpdateRet returning the update's status code in place of the id.
UpdateRet_NoId(update_resp, user_id) ==
    IF update_resp.type = "int" /\ update_resp.code = 200
    THEN Ret("updated", update_resp, "")
    ELSE Ret("failed", update_resp, user_id)

\* create_user after update_user_profile returned update_resp.
UpdateRet(update_resp, user_id) ==
    IF update_resp.type = "int" /\ update_resp.code = 200
    THEN Ret("updated", update_resp, user_id)
    ELSE Ret("failed", update_resp, user_id)

\* ------------------------------------------------------------- main
Record(row_number, email, status, user_id, error) ==
    [row_number |-> row_number, email |-> email, status |-> status,
     user_id |-> user_id, error |-> error]

\* response.get("errorMessage") or response.get("error", str(response))
error_msg(response) ==
    IF response.errorMessage # NoneStr /\ response.errorMessage # ""
    THEN response.errorMessage
    ELSE IF response.error = NoneStr THEN response.repr ELSE response.error

\* Variant of MainRecord in which a response that is not a dict is reported
\* through str(response) instead of raising.
MainRecord_NoRaise(row_num, data, ret) ==
    Record(row_num, data[1].email, ret.status, ret.user_id,
           IF ret.status = "failed"
           THEN (IF ret.response.type = "dict" THEN error_msg(ret.response) ELSE ret.response.repr)
           ELSE "")

\* The record main writes once create_user has returned ret: the row of the
\* try body, or the row of "except Exception" when response.get raises
\* AttributeError because response is not a dict.
MainRecord(row_num, data, ret) ==
    IF ret.status = "failed" /\ ret.response.type # "dict"
    THEN Record(row_num, data[1].email, "error", "",
                IF ret.response.type = "int" THEN IntNoGetMsg ELSE TupleNoGetMsg)
    ELSE Record(row_num, data[1].email, ret.status, ret.user_id,
                IF ret.status = "failed" THEN error_msg(ret.response) ELSE "")

\* The record of "except ValueError"; data is bound here.
SkippedRecord(row_num, data) == Record(row_num, data[1].email, "skipped", "", MissingFieldsMsg)

\* headers = [str(cell.value).strip() for cell in sheet[1]]
ReadHeaders(cells) == [i \in 1..Len(cells) |-> strip(cells[i])]

\* --------------------------------------------------------------- state
VARIABLES
    base_url,       \* environment: BaseURL is set
    workbook_ok,    \* environment: import-members.xlsx loads
    header_row,     \* the workbook: cells of row 1
    sheet,          \* the workbook: rows 2..max_row
    service,        \* "any": replies are arbitrary; "conforming": a service that keeps its users
    registered,     \* the emails the conforming service holds
    pc,             \* position of the script
    headers,
    row_num,
    data,           \* the local of main: <<>> while unbound, else <<dict>>
    user_id,        \* the local of create_user
    ret,            \* what create_user returned
    report,         \* records written to the CSV of this run, in order
    exit_code,
    log,            \* requests of this run with their replies, in order
    run,
    prev_report     \* the report of the previous run

vars == <<base_url, workbook_ok, header_row, sheet, service, registered, pc, headers,
          row_num, data, user_id, ret, report, exit_code, log, run, prev_report>>

env == <<base_url, workbook_ok, header_row, sheet, service>>

MaxRuns == 2

lastRow == Len(sheet) + 1

Start ==
    /\ pc = "start"
    /\ headers = <<>>
    /\ row_num = 2
    /\ data = <<>>
    /\ user_id = NoneStr
    /\ ret = NoRet
    /\ report = <<>>
    /\ exit_code = 0
    /\ log = <<>>

Init ==
    /\ base_url \in BOOLEAN
    /\ workbook_ok \in BOOLEAN
    /\ header_row \in HeaderRows
    /\ sheet \in SeqsUpTo(DataRows, MaxDataRows)
    /\ service \in {"any", "conforming"}
    /\ registered = <<>>
    /\ run = 1
    /\ prev_report = <<>>
    /\ Start

\* Module level: "if not BASE_URL: exit(1)".
CheckConfig ==
    /\ pc = "start"
    /\ IF base_url
       THEN pc' = "main" /\ exit_code' = exit_code
       ELSE pc' = "exited" /\ exit_code' = 1
    /\ UNCHANGED <<env, registered, headers, row_num, data, user_id, ret, report, log,
                   run, prev_report>>

\* main up to the loop; a failure lands in the outer "except Exception".
LoadWorkbook ==
    /\ pc = "main"
    /\ IF workbook_ok
       THEN /\ headers' = ReadHeaders(header_row)
            /\ pc' = "loop"
            /\ exit_code' = exit_code
       ELSE /\ headers' = headers
            /\ pc' = "exited"
            /\ exit_code' = 1
    /\ UNCHANGED <<env, registered, row_num, data, user_id, ret, report, log, run, prev_report>>

\* A row for which prepare_data returns.
PrepareRow ==
    /\ pc = "loop"
    /\ row_num <= lastRow
    /\ LET p == prepare_data(sheet[row_num - 1], headers)
       IN  /\ p.ok
           /\ data' = p.data
    /\ pc' = "create"
    /\ UNCHANGED <<env, registered, headers, row_num, user_id, ret, report, exit_code, log,
                   run, prev_report>>

\* A row for which prepare_data raises ValueError, and its handler: with data
\* unbound, data["email"] raises UnboundLocalError inside the handler, which
\* only the outer "except Exception" catches.
SkipRow ==
    /\ pc = "loop"
    /\ row_num <= lastRow
    /\ ~prepare_data(sheet[row_num - 1], headers).ok
    /\ IF data = <<>>
       THEN /\ pc' = "exited"
            /\ exit_code' = 1
            /\ UNCHANGED <<report, row_num>>
       ELSE /\ report' = Append(report, SkippedRecord(row_num, data))
            /\ row_num' = row_num + 1
            /\ UNCHANGED <<pc, exit_code>>
    /\ UNCHANGED <<env, registered, headers, data, user_id, ret, log, run, prev_report>>

\* The replies the service can give.
CreateRepliesTo(email) ==
    IF service = "conforming" THEN { ConformingCreate(registered, email) } ELSE CreateReplies
LookupRepliesTo(email) ==
    IF service = "conforming" THEN { ConformingLookup(registered, email) } ELSE LookupReplies
UpdateRepliesTo(id) ==
    IF service = "conforming" THEN { UpdateReply("", 200) } ELSE UpdateReplies

Request(kind, arg, reply) == [row |-> row_num, kind |-> kind, arg |-> arg, reply |-> reply]

\* create_user: the POST and what follows its reply.
SendCreate ==
    /\ pc = "create"
    /\ \E reply \in CreateRepliesTo(data[1].email) :
          /\ log' = Append(log, Request("create", data[1].email, reply))
          /\ pc' = create_user(reply).next
          /\ ret' = create_user(reply).ret
          /\ registered' = IF service = "conforming" /\ reply.success
                           THEN Append(registered, data[1].email)
                           ELSE registered
    /\ UNCHANGED <<env, headers, row_num, data, user_id, report, exit_code, run, prev_report>>

\* create_user, duplicate branch: get_user_id_by_email and "if user_id".
SendLookup ==
    /\ pc = "lookup"
    /\ \E reply \in LookupRepliesTo(data[1].email) :
          /\ log' = Append(log, Request("lookup", data[1].email, reply))
          /\ IF TruthyId(get_user_id_by_email(reply))
             THEN /\ user_id' = get_user_id_by_email(reply)
                  /\ pc' = "update"
                  /\ ret' = ret
             ELSE /\ user_id' = NoneStr
                  /\ pc' = "write"
                  /\ ret' = NotFoundRet
    /\ UNCHANGED <<env, registered, headers, row_num, data, report, exit_code, run, prev_report>>

\* create_user, duplicate branch: update_user_profile and the return.
SendUpdate ==
    /\ pc = "update"
    /\ \E reply \in UpdateRepliesTo(user_id) :
          /\ log' = Append(log, Request("update", user_id, reply))
          /\ ret' = UpdateRet(update_user_profile(reply), user_id)
    /\ user_id' = NoneStr
    /\ pc' = "write"
    /\ UNCHANGED <<env, registered, headers, row_num, data, report, exit_code, run, prev_report>>

\* main after create_user returned: the row's record, then the next row.
WriteRow ==
    /\ pc = "write"
    /\ report' = Append(report, MainRecord(row_num, data, ret))
    /\ row_num' = row_num + 1
    /\ ret' = NoRet
    /\ pc' = "loop"
    /\ UNCHANGED <<env, registered, headers, data, user_id, exit_code, log, run, prev_report>>

\* range(2, sheet.max_row + 1) is exhausted: the report is closed and main returns.
Finish ==
    /\ pc = "loop"
    /\ row_num > lastRow
    /\ pc' = "exited"
    /\ exit_code' = 0
    /\ UNCHANGED <<env, registered, headers, row_num, data, user_id, ret, report, log,
                   run, prev_report>>

\* The script is run again on the same workbook.  It keeps nothing between
\* runs; what persists is the service.  Under "any" a second run is a
\* behaviour from Init, so only the conforming service is run against again.
Rerun ==
    /\ pc = "exited"
    /\ service = "conforming"
    /\ run < MaxRuns
    /\ run' = run + 1
    /\ prev_report' = report
    /\ pc' = "start"
    /\ headers' = <<>>
    /\ row_num' = 2
    /\ data' = <<>>
    /\ user_id' = NoneStr
    /\ ret' = NoRet
    /\ report' = <<>>
    /\ exit_code' = 0
    /\ log' = <<>>
    /\ UNCHANGED <<env, registered>>

Next ==
    \/ CheckConfig
    \/ LoadWorkbook
    \/ PrepareRow
    \/ SkipRow
    \/ SendCreate
    \/ SendLookup
    \/ SendUpdate
    \/ WriteRow
    \/ Finish
    \/ Rerun

Spec == Init /\ [][Next]_vars

\* ------------------------------------------------------- properties
SetupDone == base_url /\ workbook_ok
Valid(r) == prepare_data(sheet[r - 1], ReadHeaders(header_row)).ok
PayloadOf(r) == prepare_data(sheet[r - 1], ReadHeaders(header_row)).data[1]
RowLog(r) == SelectSeq(log, LAMBDA e : e.row = r)
RecordsOf(r) == { i \in 1..Len(report) : report[i].row_number = r }
\* Row r has been dealt with: the loop moved past it, or the run ended.
Completed(r) == pc # "start" /\ pc # "main" /\ (row_num > r \/ pc = "exited")

IsDuplicate(reply) ==
    reply.exc = "" /\ reply.status_code = 200 /\ reply.json_exc = "" /\ ~reply.success
    /\ reply.errorMessage = "email_duplicate"
FoundId(reply) ==
    reply.exc = "" /\ reply.status_code = 200 /\ Len(reply.ids) > 0
    /\ reply.ids[1] # NoneStr /\ reply.ids[1] # ""
NoUser(reply) == reply.exc # "" \/ reply.status_code # 200 \/ reply.ids = <<>>
UpdateSucceeded(reply) == reply.exc = "" /\ reply.status_code = 200
CreateTransportFailed(reply) ==
    reply.exc # "" \/ (reply.status_code = 200 /\ reply.json_exc # "")

\* C1: when main finishes after a successful setup, the report holds exactly
\* one record for each row number 2..lastRow, in ascending order; no per-row
\* failure stops the loop early.
C1_OneRecordPerRow ==
    (pc = "exited" /\ SetupDone) =>
        /\ Len(report) = lastRow - 1
        /\ \A i \in 1..Len(report) : report[i].row_number = i + 1

\* C2: once configuration is resolved and the workbook is open, the process
\* exits with code 0 whatever the rows hold and whatever the service replies.
C2_ExitZeroAfterSetup ==
    (pc = "exited" /\ SetupDone) => exit_code = 0

\* C3: every row whose "First Name" or "Email" is missing, empty or blank is
\* reported exactly once, as skipped with the validation message, without any
\* request having been sent for it, and the loop goes on to the next row.
C3_InvalidRowSkipped ==
    \A r \in 2..lastRow :
        (SetupDone /\ Completed(r) /\ ~Valid(r)) =>
            /\ RowLog(r) = <<>>
            /\ \E i \in 1..Len(report) :
                  /\ RecordsOf(r) = {i}
                  /\ report[i].status = "skipped"
                  /\ report[i].error = MissingFieldsMsg
            /\ (pc = "exited" => row_num > r)

\* C5: in the duplicate branch, when the lookup finds the user and the update
\* does not succeed (non-200 or transport failure), the row is reported as
\* failed, not as error, with a populated error field.
C5_UpdateFailureReportedFailed ==
    \A i \in 1..Len(report) :
        LET L == RowLog(report[i].row_number)
        IN  (Len(L) = 3 /\ FoundId(L[2].reply) /\ ~UpdateSucceeded(L[3].reply)) =>
                (report[i].status = "failed" /\ report[i].error # "")

\* C10: every record carries as email either the empty string or the trimmed
\* "Email" cell of the row its row_number names.
C10_EmailOfOwnRow ==
    \A i \in 1..Len(report) :
        report[i].email \in
            { <<>>, get_str(EmailKey, sheet[report[i].row_number - 1], ReadHeaders(header_row)) }

\* C4: a row whose create reply is the duplicate-email reply, whose lookup
\* returns a list headed by id U and whose update returns 200 is reported as
\* updated with user_id U and no error; an update is sent only right after a
\* lookup of the same row returned that id, and a lookup only right after the
\* create of the same row reported the duplicate.
C4_DuplicateThenUpdated ==
    /\ \A i \in 1..Len(report) :
          LET L == RowLog(report[i].row_number)
          IN  (Len(L) = 3 /\ IsDuplicate(L[1].reply) /\ FoundId(L[2].reply)
                 /\ UpdateSucceeded(L[3].reply)) =>
                  /\ report[i].status = "updated"
                  /\ report[i].user_id = L[2].reply.ids[1]
                  /\ report[i].error = ""
    /\ \A j \in 1..Len(log) :
          /\ log[j].kind = "update" =>
                /\ j > 1
                /\ log[j - 1].kind = "lookup"
                /\ log[j - 1].row = log[j].row
                /\ FoundId(log[j - 1].reply)
                /\ log[j].arg = log[j - 1].reply.ids[1]
          /\ log[j].kind = "lookup" =>
                /\ j > 1
                /\ log[j - 1].kind = "create"
                /\ log[j - 1].row = log[j].row
                /\ IsDuplicate(log[j - 1].reply)

C4_Witness ==
    \E i \in 1..Len(report) :
        LET L == RowLog(report[i].row_number)
        IN  /\ Len(L) = 3
            /\ IsDuplicate(L[1].reply)
            /\ L[2].reply.ids = <<"U2", "U3">>
            /\ UpdateSucceeded(L[3].reply)
            /\ report[i].status = "updated"
            /\ report[i].user_id = "U2"

\* C6: a row whose create reply is the duplicate-email reply and whose lookup
\* yields no user (empty list, non-200, transport failure) gets no update
\* request and, once dealt with, exactly one record: failed, user_id "",
\* error "User not found for update".
C6_DuplicateNotFound ==
    \A r \in 2..lastRow :
        LET L == RowLog(r)
        IN  (Len(L) >= 2 /\ IsDuplicate(L[1].reply) /\ NoUser(L[2].reply)) =>
                /\ Len(L) = 2
                /\ Completed(r) =>
                      \E i \in 1..Len(report) :
                          /\ RecordsOf(r) = {i}
                          /\ report[i].status = "failed"
                          /\ report[i].user_id = ""
                          /\ report[i].error = UserNotFoundMsg

C6_Witness ==
    \E r \in 2..lastRow :
        /\ Completed(r)
        /\ Len(RowLog(r)) = 2
        /\ IsDuplicate(RowLog(r)[1].reply)
        /\ RowLog(r)[2].reply.exc # ""
        /\ \E i \in RecordsOf(r) : report[i].error = UserNotFoundMsg

\* C7: a row whose create call fails at transport level (the POST raises, or
\* its body does not parse) has exactly one request, the create; once dealt
\* with it has exactly one record, failed with a non-empty error; the loop
\* goes on with the payload of that row as its carried state, every later row
\* gets its one record, and the run ends with exit code 0.
C7_CreateTransportFailure ==
    \A r \in 2..lastRow :
        LET L == RowLog(r)
        IN  (Len(L) >= 1 /\ CreateTransportFailed(L[1].reply)) =>
                /\ Len(L) = 1
                /\ L[1].kind = "create"
                /\ Completed(r) =>
                      /\ \E i \in 1..Len(report) :
                            /\ RecordsOf(r) = {i}
                            /\ report[i].status = "failed"
                            /\ report[i].user_id = ""
                            /\ report[i].error # ""
                      /\ (pc = "loop" /\ row_num = r + 1) => data = <<PayloadOf(r)>>
                      /\ \A q \in (r + 1)..lastRow :
                            Completed(q) => Cardinality(RecordsOf(q)) = 1
                      /\ pc = "exited" => (exit_code = 0 /\ row_num = lastRow + 1)

C7_Witness ==
    \E r \in 2..lastRow :
        /\ r < lastRow
        /\ Len(RowLog(r)) = 1
        /\ RowLog(r)[1].reply.exc # ""
        /\ pc = "exited"
        /\ \E i \in RecordsOf(r) : report[i].status = "failed"
        /\ \E i \in RecordsOf(r + 1) : report[i].status = "created"

\* C8: in every record of the report user_id is non-empty only if status is
\* created or updated, and error is non-empty only if status is failed,
\* skipped or error.
C8_RecordFieldsMatchStatus ==
    \A i \in 1..Len(report) :
        /\ report[i].user_id # "" => report[i].status \in {"created", "updated"}
        /\ report[i].error # "" => report[i].status \in {"failed", "skipped", "error"}

\* The branch where create_user returned failed together with the looked-up id.
C8_Witness ==
    \E i \in 1..Len(report) :
        LET L == RowLog(report[i].row_number)
        IN  /\ Len(L) = 3
            /\ FoundId(L[2].reply)
            /\ L[3].reply.status_code = 500
            /\ report[i].status = "error"
            /\ report[i].user_id = ""

\* C9: against a service that keeps its users, a valid row whose email was
\* imported (created or updated) by the previous run, or by an earlier row of
\* this run, is reported as updated, with the id the service holds for it.
ImportedIn(rep, email, n) ==
    \E j \in 1..n : rep[j].email = email /\ rep[j].status \in {"created", "updated"}

C9_RerunYieldsUpdated ==
    service = "conforming" =>
        \A i \in 1..Len(report) :
            LET r == report[i].row_number
            IN  (Valid(r) /\ (\/ ImportedIn(prev_report, PayloadOf(r).email, Len(prev_report))
                              \/ ImportedIn(report, PayloadOf(r).email, i - 1))) =>
                    /\ report[i].status = "updated"
                    /\ report[i].email = PayloadOf(r).email
                    /\ report[i].user_id = ServiceId(registered, PayloadOf(r).email)

\* A second run over a workbook all of whose rows the first run imported.
C9_Witness ==
    /\ service = "conforming"
    /\ run = 2
    /\ pc = "exited"
    /\ Len(sheet) >= 2
    /\ Len(prev_report) = Len(sheet)
    /\ \A j \in 1..Len(prev_report) : prev_report[j].status \in {"created", "updated"}
    /\ \E j \in 1..Len(prev_report) : prev_report[j].status = "updated"
    /\ Len(report) = Len(sheet)
    /\ \A i \in 1..Len(report) : report[i].status = "updated"

====
